---- MODULE Spec2Model ----
(***************************************************************************)
(* State-machine model of the Home dashboard component (src/Home.jsx):     *)
(* role detection by IP, role-gated navigation, the report modal and the   *)
(* bin selection.                                                          *)
(*                                                                         *)
(* The component's useState cells are the variables.  An async handler    *)
(* runs from one `await` to the next in one step: a step that resumes a    *)
(* handler takes the response its request settled with as its input and    *)
(* records it in `delivered`.  Timers (setTimeout) are pending callbacks   *)
(* that fire as steps of their own.  A state cell holds the latest value   *)
(* written to it; what the handlers' closures saw at the last render is    *)
(* kept apart (rendered).                                                  *)
(*                                                                         *)
(* haversineDistance, the file's pure function, has a specification of its *)
(* own (SpecDistance), which calls it on pairs of points.                  *)
(***************************************************************************)
EXTENDS Integers, Sequences, FiniteSets, TLC

\* ------------------------------------------------------------- bounds
\* user interactions (clicks, edits) in one session
MaxEvents == 3
\* detectRoleFlow invocations in one session, the mount-time one included
MaxFlows == 2

\* the bits of a Number's significand, in the model of haversineDistance
Precision == 9

\* ------------------------------------------------------------ strings
\* JS null / undefined
NULL == "null"

\* Strings that the code lower-cases are sequences of characters.
UpperChars == <<"A","B","C","D","E","F","G","H","I","J","K","L","M",
                "N","O","P","Q","R","S","T","U","V","W","X","Y","Z">>
LowerChars == <<"a","b","c","d","e","f","g","h","i","j","k","l","m",
                "n","o","p","q","r","s","t","u","v","w","x","y","z">>

toLowerChar(c) ==
    IF \E k \in 1..Len(UpperChars) : UpperChars[k] = c
    THEN LowerChars[CHOOSE k \in 1..Len(UpperChars) : UpperChars[k] = c]
    ELSE c

\* String.prototype.toLowerCase
toLowerCase(s) == [k \in 1..Len(s) |-> toLowerChar(s[k])]

S_detecting == <<"d","e","t","e","c","t","i","n","g">>
S_guest == <<"g","u","e","s","t">>
S_user == <<"u","s","e","r">>
S_admin == <<"a","d","m","i","n">>
S_driver == <<"d","r","i","v","e","r">>
S_truck == <<"t","r","u","c","k">>
\* roles as a server may spell them
S_Admin == <<"A","d","m","i","n">>
S_TRUCK == <<"T","R","U","C","K">>

\* ----------------------------------------------------- the environment
FALLBACK_IP == "203.0.173.5"
\* the address the IP-lookup service may report
LookupIp == "198.51.100.23"
\* what the user may type into the manual-IP field
ManualIps == {"", "192.0.2.44"}

\* What `fetch("https://api.ipify.org?format=json")` may settle with:
\* a rejection, a non-ok response, or an ok response whose JSON body
\* holds an ip or holds none.
LookupResponses ==
    { [rejected |-> TRUE,  ok |-> FALSE, json |-> FALSE, body |-> <<>>],
      [rejected |-> FALSE, ok |-> FALSE, json |-> TRUE,  body |-> <<>>],
      [rejected |-> FALSE, ok |-> TRUE,  json |-> TRUE,  body |-> [ip |-> LookupIp]],
      [rejected |-> FALSE, ok |-> TRUE,  json |-> TRUE,  body |-> <<>>] }

\* JSON bodies of a successful detect-role response: a body is a function
\* whose domain is the set of fields present (and not null) in it.
DetectBodies ==
    { [role |-> S_Admin, source |-> "10.0.0.1", id |-> "A-1", description |-> "ops"],
      [role |-> S_TRUCK],
      <<>> }

\* What `fetch(DETECT_ENDPOINT, ...)` may settle with: a rejection (network
\* error), a non-2xx response, a 2xx response whose body does not parse,
\* or a 2xx response with one of the bodies above.
DetectResponses ==
    { [rejected |-> TRUE,  ok |-> FALSE, json |-> FALSE, body |-> <<>>],
      [rejected |-> FALSE, ok |-> FALSE, json |-> FALSE, body |-> <<>>],
      [rejected |-> FALSE, ok |-> TRUE,  json |-> FALSE, body |-> <<>>] }
    \cup { [rejected |-> FALSE, ok |-> TRUE, json |-> TRUE, body |-> b] : b \in DetectBodies }

\* What `fetch(REPORT_ENDPOINT, ...)` may settle with.
ReportResponses ==
    { [rejected |-> TRUE,  ok |-> FALSE],
      [rejected |-> FALSE, ok |-> FALSE],
      [rejected |-> FALSE, ok |-> TRUE] }

\* no response delivered yet
NoResponse == [rejected |-> FALSE, ok |-> FALSE, json |-> FALSE, body |-> <<"pending">>]

\* ----------------------------------------------------------- messages
ERR_MANUAL == "Please enter an IP to use manual detection."
ERR_DETECT == "Failed to detect role. Make sure backend is running and allows CORS."
ERR_ADMIN == "Access denied - admin IP not detected."
ERR_DRIVER == "Access denied - driver IP not detected."

STATUS_LOADING == [type |-> "loading", text |-> "Submitting report..."]
STATUS_SUCCESS == [type |-> "success", text |-> "Report submitted - thank you!"]
STATUS_ERROR == [type |-> "error", text |-> "Could not submit report (backend may be missing)."]
NO_STATUS == [type |-> "null", text |-> "null"]

\* -------------------------------------------------------------- bins
\* coordinates in 1e-4 degrees
DEFAULT_CENTER == [lat |-> 129716, lng |-> 775946]

demoBins ==
    << [id |-> "BIN-A", title |-> "Bin A", lat |-> 129721, lng |-> 775948, color |-> "red",
        dist |-> "0.05 km", status |-> "OVERFLOW"],
       [id |-> "BIN-B", title |-> "Bin B", lat |-> 129710, lng |-> 775960, color |-> "yellow",
        dist |-> "0.10 km", status |-> "OK"],
       [id |-> "BIN-C", title |-> "Bin C", lat |-> 129702, lng |-> 775930, color |-> "blue",
        dist |-> "0.85 km", status |-> "FULL"] >>

\* the selected bin at mount
InitialBin ==
    [id |-> "BIN-A", title |-> "Bin A", status |-> "OVERFLOW", dist |-> "0.05 km",
     lat |-> DEFAULT_CENTER.lat + 5, lng |-> DEFAULT_CENTER.lng + 6]

EMPTY_PAYLOAD == [binId |-> "", note |-> ""]

VARIABLES
    roleInfo,       \* useState: { role, source, id, description }
    loading,        \* useState
    error,          \* useState: the error banner's text, or NULL
    manualIp,       \* useState
    useManual,      \* useState
    showReport,     \* useState: the report modal is open
    reportPayload,  \* useState: { binId, note }
    reportStatus,   \* useState: the status toast, or NO_STATUS
    selectedBin,    \* useState
    rendered,       \* roleInfo.role as the last render saw it (the handlers' closures)
    location,       \* the router's location: "/", "/admin" or "/driver"
    flows,          \* detectRoleFlow invocations in order of issue: [pc, ip, sent]
    delivered,      \* history: the response handed to the handler this step resumed, if any
    errorTimers,    \* pending setTimeout(() => setError(null), 2500) callbacks
    reports,        \* submitReport invocations in order of issue: their pc
    statusTimers,   \* pending setTimeout(() => setReportStatus(null), 3000), oldest first
    statusOwner,    \* history: the submitReport invocation that wrote reportStatus last
    lastChosen,     \* history: index in demoBins of the user's last selection, 0 if none
    events,         \* the number of user interactions so far
    pointA,         \* haversineDistance: the first point, { lat, lng } in degrees
    pointB,         \* haversineDistance: the second point
    distance        \* haversineDistance: what it returned for the two points, once called

vars == << roleInfo, loading, error, manualIp, useManual, showReport, reportPayload,
           reportStatus, selectedBin, rendered, location, flows, delivered, errorTimers,
           reports, statusTimers, statusOwner, lastChosen, events,
           pointA, pointB, distance >>

roleVars == << roleInfo, loading, error, rendered, location, flows, errorTimers >>
manualVars == << manualIp, useManual >>
reportVars == << showReport, reportPayload, reportStatus, reports, statusTimers, statusOwner >>
binVars == << selectedBin, lastChosen >>
distanceVars == << pointA, pointB, distance >>

\* ------------------------------------------------------------- Init
\* a detectRoleFlow invocation before its first request
NewFlow == [pc |-> "lookup", ip |-> "", sent |-> 0]

\* haversineDistance has not been called
NotComputed == [called |-> FALSE]

\* The state once the component is mounted and the mount effect has called
\* detectRoleFlow(), which runs to its first await: the IP lookup is in flight.
HomeInit ==
    /\ roleInfo = [role |-> S_detecting, source |-> NULL, id |-> NULL, description |-> NULL]
    /\ loading = TRUE
    /\ error = NULL
    /\ manualIp = ""
    /\ useManual = FALSE
    /\ showReport = FALSE
    /\ reportPayload = EMPTY_PAYLOAD
    /\ reportStatus = NO_STATUS
    /\ selectedBin = InitialBin
    /\ rendered = S_detecting
    /\ location = "/"
    /\ flows = << NewFlow >>
    /\ delivered = NoResponse
    /\ errorTimers = 0
    /\ reports = << >>
    /\ statusTimers = << >>
    /\ statusOwner = 0
    /\ lastChosen = 0
    /\ events = 0

\* Home never calls haversineDistance
Init ==
    /\ HomeInit
    /\ pointA = [lat |-> 0, lng |-> 0]
    /\ pointB = [lat |-> 0, lng |-> 0]
    /\ distance = NotComputed

\* the component is mounted: a navigation replaces it
Mounted == location = "/"

\* a user interaction: a click or an edit
UserEvent ==
    /\ Mounted
    /\ events < MaxEvents
    /\ events' = events + 1
    /\ delivered' = NoResponse
    /\ UNCHANGED distanceVars

\* a timer fires, or React renders
EnvStep ==
    /\ Mounted
    /\ delivered' = NoResponse
    /\ UNCHANGED events
    /\ UNCHANGED distanceVars

\* a request settles with response r and its handler resumes
Resumed(r) ==
    /\ Mounted
    /\ delivered' = r
    /\ UNCHANGED events
    /\ UNCHANGED distanceVars

\* --------------------------------------------------- render-time values
\* normalizedRole, showAdminButton and showDriverButton are computed when the
\* component renders, and the handlers close over them.  A setState made by
\* a resumed async handler is rendered later (Render); one made by a click
\* or an edit is rendered before the next one, so that useManual, manualIp,
\* showReport and reportPayload are read as they are.
normalizedRole == toLowerCase(rendered)
showAdminButton == normalizedRole = S_admin
showDriverButton == normalizedRole = S_driver \/ normalizedRole = S_truck

\* React re-renders: the handlers' closures see the state written since.
Render ==
    /\ EnvStep
    /\ rendered # roleInfo.role
    /\ rendered' = roleInfo.role
    /\ UNCHANGED << roleInfo, loading, error, location, flows, errorTimers >>
    /\ UNCHANGED << manualVars, reportVars, binVars >>

\* ------------------------------------------------------ manual override
SetManualIp(ip) ==
    /\ UserEvent
    /\ manualIp' = ip
    /\ UNCHANGED << useManual, roleVars, reportVars, binVars >>

SetUseManual(b) ==
    /\ UserEvent
    /\ useManual' = b
    /\ UNCHANGED << manualIp, roleVars, reportVars, binVars >>

\* ------------------------------------------------------- role detection
\* `useManual && manualIp`
manualOverride == useManual /\ manualIp # ""

\* callDetectEndpoint(ip) up to its `await fetch(DETECT_ENDPOINT, ...)`:
\* the invocation's record once the request for ip is issued
callDetectEndpoint(f, ip) ==
    [f EXCEPT !.pc = "detect", !.ip = ip, !.sent = f.sent + 1]

\* detectRoleFlow() up to its first await: the detect-role request for the
\* manual IP, or the IP lookup
detectRoleFlow ==
    /\ loading' = TRUE
    /\ error' = NULL
    /\ flows' = Append(flows, IF manualOverride
                              THEN callDetectEndpoint(NewFlow, manualIp)
                              ELSE NewFlow)

handleDetectClick ==
    /\ UserEvent
    /\ IF useManual /\ manualIp = ""
       THEN /\ error' = ERR_MANUAL
            /\ UNCHANGED << loading, flows >>
       ELSE Len(flows) < MaxFlows /\ detectRoleFlow
    /\ UNCHANGED << roleInfo, rendered, location, errorTimers >>
    /\ UNCHANGED << manualVars, reportVars, binVars >>

\* the try / catch around the lookup: the address it leaves in `ip`
lookedUpIp(r) ==
    IF ~r.rejected /\ r.ok /\ r.json /\ "ip" \in DOMAIN r.body
    THEN r.body.ip
    ELSE ""

\* ipToSubmit without the fallback line
ipToSubmit_noFallback(r) == lookedUpIp(r)

\* `if (!ip) ip = "203.0.173.5"`
ipToSubmit(r) == IF lookedUpIp(r) = "" THEN FALLBACK_IP ELSE lookedUpIp(r)

\* the lookup of invocation i settles with response r: detectRoleFlow
\* resumes and calls callDetectEndpoint(ip), which runs to its fetch
LookupResume(i, r) ==
    /\ Resumed(r)
    /\ flows[i].pc = "lookup"
    /\ flows' = [flows EXCEPT ![i] = callDetectEndpoint(@, ipToSubmit(r))]
    /\ loading' = TRUE
    /\ error' = NULL
    /\ UNCHANGED << roleInfo, rendered, location, errorTimers >>
    /\ UNCHANGED << manualVars, reportVars, binVars >>

\* the try block reaches setRoleInfo: a 2xx response whose body parses
detectSucceeded(r) == ~r.rejected /\ r.ok /\ r.json

\* `x ?? d` on a field of the response body
orElse(data, field, d) == IF field \in DOMAIN data THEN data[field] ELSE d

\* roleInfoOnSuccess with the role normalized on the way in
roleInfoOnSuccess_lowercased(data, ip) ==
    [role |-> toLowerCase(orElse(data, "role", S_user)),
     source |-> orElse(data, "source", ip),
     id |-> orElse(data, "id", NULL),
     description |-> orElse(data, "description", "")]

\* the object the try block passes to setRoleInfo
roleInfoOnSuccess(data, ip) ==
    [role |-> orElse(data, "role", S_user),
     source |-> orElse(data, "source", ip),
     id |-> orElse(data, "id", NULL),
     description |-> orElse(data, "description", "")]

\* roleInfoOnFailure that leaves the source as it was
roleInfoOnFailure_keepsSource(s, ip) == [s EXCEPT !.role = S_guest]

\* roleInfoOnFailure that builds the object afresh
roleInfoOnFailure_afresh(s, ip) ==
    [role |-> S_guest, source |-> ip, id |-> NULL, description |-> ""]

\* the catch block's updater: (s) => ({ ...s, role: "guest", source: ip })
roleInfoOnFailure(s, ip) == [s EXCEPT !.role = S_guest, !.source = ip]

\* the detect-role request of invocation i settles with response r:
\* callDetectEndpoint resumes and runs to its end, and detectRoleFlow,
\* resumed in turn, runs to its end
DetectResume(i, r) ==
    /\ Resumed(r)
    /\ flows[i].pc = "detect"
    /\ IF detectSucceeded(r)
       THEN /\ roleInfo' = roleInfoOnSuccess(r.body, flows[i].ip)
            /\ UNCHANGED error
       ELSE /\ error' = ERR_DETECT
            /\ roleInfo' = roleInfoOnFailure(roleInfo, flows[i].ip)
    /\ loading' = FALSE
    /\ flows' = [flows EXCEPT ![i].pc = "done", ![i].ip = ""]
    /\ UNCHANGED << rendered, location, errorTimers >>
    /\ UNCHANGED << manualVars, reportVars, binVars >>

\* ---------------------------------------------------------- navigation
\* The two handlers are operations of the component, each with its own check
\* of the role: they are taken as callable in every state, whether or not
\* the button that calls them is shown.
handleAdminNavigate ==
    /\ UserEvent
    /\ IF ~showAdminButton
       THEN /\ error' = ERR_ADMIN
            /\ errorTimers' = errorTimers + 1
            /\ UNCHANGED location
       ELSE /\ location' = "/admin"
            /\ UNCHANGED << error, errorTimers >>
    /\ UNCHANGED << roleInfo, loading, rendered, flows >>
    /\ UNCHANGED << manualVars, reportVars, binVars >>

handleDriverNavigate ==
    /\ UserEvent
    /\ IF ~showDriverButton
       THEN /\ error' = ERR_DRIVER
            /\ errorTimers' = errorTimers + 1
            /\ UNCHANGED location
       ELSE /\ location' = "/driver"
            /\ UNCHANGED << error, errorTimers >>
    /\ UNCHANGED << roleInfo, loading, rendered, flows >>
    /\ UNCHANGED << manualVars, reportVars, binVars >>

\* a 2.5 s timer set by a denied navigation fires: () => setError(null)
ErrorTimerFire ==
    /\ EnvStep
    /\ errorTimers > 0
    /\ error' = NULL
    /\ errorTimers' = errorTimers - 1
    /\ UNCHANGED << roleInfo, loading, rendered, location, flows >>
    /\ UNCHANGED << manualVars, reportVars, binVars >>

\* -------------------------------------------------------- report modal
\* the Report buttons: setShowReport(true)
OpenReport ==
    /\ UserEvent
    /\ showReport' = TRUE
    /\ UNCHANGED << reportPayload, reportStatus, reports, statusTimers, statusOwner >>
    /\ UNCHANGED << roleVars, manualVars, binVars >>

\* the modal's backdrop and its Cancel button: setShowReport(false)
CloseReport ==
    /\ UserEvent
    /\ showReport
    /\ showReport' = FALSE
    /\ UNCHANGED << reportPayload, reportStatus, reports, statusTimers, statusOwner >>
    /\ UNCHANGED << roleVars, manualVars, binVars >>

\* the form's inputs
EditBinId(v) ==
    /\ UserEvent
    /\ showReport
    /\ reportPayload' = [reportPayload EXCEPT !.binId = v]
    /\ UNCHANGED << showReport, reportStatus, reports, statusTimers, statusOwner >>
    /\ UNCHANGED << roleVars, manualVars, binVars >>

EditNote(v) ==
    /\ UserEvent
    /\ showReport
    /\ reportPayload' = [reportPayload EXCEPT !.note = v]
    /\ UNCHANGED << showReport, reportStatus, reports, statusTimers, statusOwner >>
    /\ UNCHANGED << roleVars, manualVars, binVars >>

\* submitReport(e) up to its `await fetch(REPORT_ENDPOINT, ...)`; the form
\* that submits is part of the modal
submitReport ==
    /\ UserEvent
    /\ showReport
    /\ reportStatus' = STATUS_LOADING
    /\ reports' = Append(reports, "fetch")
    /\ statusOwner' = Len(reports) + 1
    /\ UNCHANGED << showReport, reportPayload, statusTimers >>
    /\ UNCHANGED << roleVars, manualVars, binVars >>

\* reportSucceeded without the `if (!res.ok) throw`
reportSucceeded_anyResponse(r) == ~r.rejected

\* `res.ok` of a response that arrived
reportSucceeded(r) == ~r.rejected /\ r.ok

\* the report request of invocation i settles with response r:
\* submitReport resumes and runs to its end
SubmitResume(i, r) ==
    /\ Resumed(r)
    /\ reports[i] = "fetch"
    /\ IF reportSucceeded(r)
       THEN /\ reportStatus' = STATUS_SUCCESS
            /\ showReport' = FALSE
            /\ reportPayload' = EMPTY_PAYLOAD
       ELSE /\ reportStatus' = STATUS_ERROR
            /\ UNCHANGED << showReport, reportPayload >>
    /\ statusTimers' = Append(statusTimers, i)
    /\ statusOwner' = i
    /\ reports' = [reports EXCEPT ![i] = "done"]
    /\ UNCHANGED << roleInfo, loading, error, rendered, location, flows, errorTimers >>
    /\ UNCHANGED << manualVars, binVars >>

\* the oldest 3 s timer fires: () => setReportStatus(null)
StatusTimerFire ==
    /\ EnvStep
    /\ statusTimers # << >>
    /\ reportStatus' = NO_STATUS
    /\ statusTimers' = Tail(statusTimers)
    /\ UNCHANGED << showReport, reportPayload, reports, statusOwner >>
    /\ UNCHANGED << roleVars, manualVars, binVars >>

\* -------------------------------------------------------- bin selection
\* the sidebar's View button of bin k
viewedBin(b) ==
    [id |-> b.id, title |-> b.title, status |-> b.status, dist |-> b.dist,
     lat |-> b.lat, lng |-> b.lng]

\* mapBin that passes only what a marker needs
mapBin_markerOnly(b) == [id |-> b.id, title |-> b.title, lat |-> b.lat, lng |-> b.lng]

\* the bins handed to BinMap, and onSelectBin's copy of the one clicked
mapBin(b) ==
    [id |-> b.id, title |-> b.title, lat |-> b.lat, lng |-> b.lng,
     status |-> b.status, dist |-> b.dist]

ViewBin(k) ==
    /\ UserEvent
    /\ selectedBin' = viewedBin(demoBins[k])
    /\ lastChosen' = k
    /\ UNCHANGED << roleVars, manualVars, reportVars >>

MarkerClick(k) ==
    /\ UserEvent
    /\ selectedBin' = mapBin(demoBins[k])
    /\ lastChosen' = k
    /\ UNCHANGED << roleVars, manualVars, reportVars >>

\* ------------------------------------------------------ specification
Next ==
    \/ Render
    \/ \E ip \in ManualIps : SetManualIp(ip)
    \/ \E b \in BOOLEAN : SetUseManual(b)
    \/ handleDetectClick
    \/ \E i \in 1..Len(flows) : \E r \in LookupResponses : LookupResume(i, r)
    \/ \E i \in 1..Len(flows) : \E r \in DetectResponses : DetectResume(i, r)
    \/ handleAdminNavigate
    \/ handleDriverNavigate
    \/ ErrorTimerFire
    \/ OpenReport
    \/ CloseReport
    \/ \E v \in {"", "BIN-A"} : EditBinId(v)
    \/ \E v \in {"", "full"} : EditNote(v)
    \/ submitReport
    \/ \E i \in 1..Len(reports) : \E r \in ReportResponses : SubmitResume(i, r)
    \/ StatusTimerFire
    \/ \E k \in 1..Len(demoBins) : ViewBin(k)
    \/ \E k \in 1..Len(demoBins) : MarkerClick(k)

Spec == Init /\ [][Next]_vars

\* ------------------------------------------------- haversineDistance
\* haversineDistance is a pure function of four Numbers.  A Number is a binary
\* floating-point value s * m * 2^e with a significand m of Precision bits;
\* every arithmetic operation returns the exact result rounded to the nearest
\* such value, ties to even, as the operations on IEEE 754 doubles do with 53
\* bits.  Precision is the least that holds every coordinate in degrees, and
\* every difference of two, exactly.  The exponent is not bounded: no value
\* of the computation overflows, and none underflows for the points taken.
\* NaN has s = 0, zero has m = 0.
NaN == [s |-> 0, m |-> 0, e |-> 0]
Zero == [s |-> 1, m |-> 0, e |-> 0]
isNaN(a) == a.s = 0

RECURSIVE bitLength(_)
bitLength(n) == IF n = 0 THEN 0 ELSE 1 + bitLength(n \div 2)

\* s * n * 2^e rounded to Precision bits; `inexact` says that n is itself
\* the floor of the value to round
Round(s, n, e, inexact) ==
    IF n = 0 THEN Zero
    ELSE LET L == bitLength(n) IN
         IF L <= Precision
         THEN [s |-> s, m |-> n * 2^(Precision - L), e |-> e - (Precision - L)]
         ELSE LET k == L - Precision
                  q == n \div 2^k
                  r == n % 2^k
                  half == 2^(k - 1)
                  up == r > half \/ (r = half /\ (inexact \/ q % 2 = 1))
                  q2 == IF up THEN q + 1 ELSE q
              IN  IF q2 = 2^Precision
                  THEN [s |-> s, m |-> 2^(Precision - 1), e |-> e + k + 1]
                  ELSE [s |-> s, m |-> q2, e |-> e + k]

\* a numeric literal
Num(i) == Round(IF i >= 0 THEN 1 ELSE -1, IF i >= 0 THEN i ELSE -i, 0, FALSE)

Neg(a) == IF a.m = 0 THEN a ELSE [a EXCEPT !.s = -a.s]

\* a * b
Mul(a, b) ==
    IF isNaN(a) \/ isNaN(b) THEN NaN
    ELSE Round(a.s * b.s, a.m * b.m, a.e + b.e, FALSE)

\* a + b
Add(a, b) ==
    IF isNaN(a) \/ isNaN(b) THEN NaN
    ELSE IF a.m = 0 THEN b
    ELSE IF b.m = 0 THEN a
    ELSE LET hi == IF a.e >= b.e THEN a ELSE b
             lo == IF a.e >= b.e THEN b ELSE a
             d == hi.e - lo.e
             n == hi.s * hi.m * 2^d + lo.s * lo.m
         IN  IF d >= Precision + 2 THEN hi
             ELSE Round(IF n >= 0 THEN 1 ELSE -1, IF n >= 0 THEN n ELSE -n, lo.e, FALSE)

\* a - b
Sub(a, b) == Add(a, Neg(b))

\* a / b
Div(a, b) ==
    IF isNaN(a) \/ isNaN(b) \/ b.m = 0 THEN NaN
    ELSE IF a.m = 0 THEN Zero
    ELSE LET n == a.m * 2^(Precision + 2)
         IN  Round(a.s * b.s, n \div b.m, a.e - b.e - (Precision + 2), n % b.m # 0)

\* the floor of the square root of n, between lo and hi
RECURSIVE isqrt(_, _, _)
isqrt(n, lo, hi) ==
    IF hi - lo <= 1 THEN lo
    ELSE LET mid == (lo + hi) \div 2
         IN  IF mid * mid <= n THEN isqrt(n, mid, hi) ELSE isqrt(n, lo, mid)

\* Math.sqrt: NaN for a negative number
Math_sqrt(a) ==
    IF isNaN(a) \/ (a.s < 0 /\ a.m # 0) THEN NaN
    ELSE IF a.m = 0 THEN Zero
    ELSE LET k == IF (a.e - (Precision + 4)) % 2 = 0 THEN Precision + 4 ELSE Precision + 5
             n == a.m * 2^k
             r == isqrt(n, 0, 2^15)
         IN  Round(1, r, (a.e - k) \div 2, r * r # n)

\* Math.sin, Math.cos and Math.atan2 are computed in fixed point with FracBits
\* fraction bits by CORDIC rotations, and the result is rounded to a Number.
FracBits == 28

\* atan(2^-i) * 2^FracBits, i = 0 .. FracBits
ATAN ==
    << 210828714, 124459457, 65760959, 33381290, 16755422, 8385879, 4193963,
       2097109, 1048571, 524287, 262144, 131072, 65536, 32768, 16384, 8192,
       4096, 2048, 1024, 512, 256, 128, 64, 32, 16, 8, 4, 2, 1 >>

\* the product of cos(atan(2^-i)), i = 0 .. FracBits, times 2^FracBits
KINV == 163008219

\* pi * 2^FracBits
PI_F == 843314857

\* |a| in fixed point
toFixed(a) ==
    IF a.e + FracBits >= 0 THEN a.m * 2^(a.e + FracBits) ELSE a.m \div 2^(-(a.e + FracBits))

fromFixed(n) == Round(IF n >= 0 THEN 1 ELSE -1, IF n >= 0 THEN n ELSE -n, -FracBits, FALSE)

\* rotate (x, y) by the angle z: << cos z, sin z >> from (KINV, 0)
RECURSIVE rotate(_, _, _, _)
rotate(x, y, z, i) ==
    IF i > FracBits THEN << x, y >>
    ELSE IF z >= 0
         THEN rotate(x - y \div 2^i, y + x \div 2^i, z - ATAN[i + 1], i + 1)
         ELSE rotate(x + y \div 2^i, y - x \div 2^i, z + ATAN[i + 1], i + 1)

\* rotate (x, y) onto the x axis: the angle turned, atan(y / x), from z = 0
RECURSIVE vector(_, _, _, _)
vector(x, y, z, i) ==
    IF i > FracBits THEN z
    ELSE IF y >= 0
         THEN vector(x + y \div 2^i, y - x \div 2^i, z + ATAN[i + 1], i + 1)
         ELSE vector(x - y \div 2^i, y + x \div 2^i, z - ATAN[i + 1], i + 1)

\* a is so small that sin a = a, cos a = 1 and atan a = a to Precision bits
tiny(a) == a.e + Precision <= -(Precision + 2)

\* << cos z, sin z >> for z in 0 .. pi: the angle is brought under pi / 2
cosSin(z) ==
    IF 2 * z > PI_F
    THEN LET cs == rotate(KINV, 0, PI_F - z, 0) IN << -cs[1], cs[2] >>
    ELSE rotate(KINV, 0, z, 0)

Math_sin(a) ==
    IF isNaN(a) THEN NaN
    ELSE IF a.m = 0 \/ tiny(a) THEN a
    ELSE LET r == fromFixed(cosSin(toFixed(a))[2])
         IN  IF a.s > 0 THEN r ELSE Neg(r)

Math_cos(a) ==
    IF isNaN(a) THEN NaN
    ELSE IF a.m = 0 \/ tiny(a) THEN Num(1)
    ELSE fromFixed(cosSin(toFixed(a))[1])

\* Math.atan2(y, x) for y >= 0 and x >= 0, which is all haversineDistance
\* passes that is not NaN
Math_atan2(y, x) ==
    IF isNaN(y) \/ isNaN(x) THEN NaN
    ELSE IF y.m = 0 THEN Zero
    ELSE IF x.m # 0 /\ tiny(Div(y, x)) THEN Div(y, x)
    ELSE fromFixed(vector(toFixed(x), toFixed(y), 0, 0))

Math_PI == fromFixed(PI_F)

\* `const R = 6371`
R == 6371

\* `const toRad = (deg) => (deg * Math.PI) / 180`
toRad(deg) == Div(Mul(deg, Math_PI), Num(180))

\* the haversine term `a` of haversineDistance
haversineA(lat1, lon1, lat2, lon2) ==
    LET dLat == toRad(Sub(lat2, lat1))
        dLon == toRad(Sub(lon2, lon1))
        sinLat == Math_sin(Div(dLat, Num(2)))
        sinLon == Math_sin(Div(dLon, Num(2)))
    IN  Add(Mul(sinLat, sinLat),
            Mul(Mul(Mul(Math_cos(toRad(lat1)), Math_cos(toRad(lat2))), sinLon), sinLon))

haversineDistance(lat1, lon1, lat2, lon2) ==
    LET a == haversineA(lat1, lon1, lat2, lon2)
        c == Mul(Num(2), Math_atan2(Math_sqrt(a), Math_sqrt(Sub(Num(1), a))))
        d == Mul(Num(R), c)
    IN  d

\* the points haversineDistance is called with: valid coordinates, in degrees
Latitudes == {-90, -75, -45, -15, 0, 15, 45, 75, 90}
Longitudes == {-180, -90, 0, 90, 180}
Points == [lat : Latitudes, lng : Longitudes]

InitDistance ==
    /\ HomeInit
    /\ pointA \in Points
    /\ pointB \in Points
    /\ distance = NotComputed

\* haversineDistance is called with the two points, in either order
CallDistance ==
    /\ distance = NotComputed
    /\ distance' =
          [called |-> TRUE,
           ab |-> haversineDistance(Num(pointA.lat), Num(pointA.lng), Num(pointB.lat), Num(pointB.lng)),
           ba |-> haversineDistance(Num(pointB.lat), Num(pointB.lng), Num(pointA.lat), Num(pointA.lng))]
    /\ UNCHANGED << pointA, pointB >>
    /\ UNCHANGED << roleVars, manualVars, reportVars, binVars, delivered, events >>

NextDistance == CallDistance

SpecDistance == InitDistance /\ [][NextDistance]_vars

\* ------------------------------------------------------------- claims
\* invocation i of detectRoleFlow is resumed from its detect-role request
\* in this step
DetectReturns(i) == flows[i].pc = "detect" /\ flows'[i].pc # "detect"

\* the detect-role call failed: a network error, a non-2xx response, or a
\* body that does not parse
DetectFailed(r) == r.rejected \/ ~r.ok \/ ~r.json

\* C1: a navigation to /admin happens only if the role held in roleInfo at
\* that moment, lower-cased, is "admin", and a navigation to /driver only if
\* it is "driver" or "truck", also when a detection completed since the
\* last render.
C1_NavigationChecksCurrentRole ==
    [][ /\ (location = "/" /\ location' = "/admin")
            => toLowerCase(roleInfo.role) = S_admin
        /\ (location = "/" /\ location' = "/driver")
            => toLowerCase(roleInfo.role) \in {S_driver, S_truck} ]_vars

\* C2: when the detect-role call for ip x fails, then right after it
\* roleInfo.role is "guest", roleInfo.source is x, the error message is set,
\* and the invocation has ended normally.
C2_FailedDetectionDowngradesToGuest ==
    [][ \A i \in 1..Len(flows) :
          (DetectReturns(i) /\ DetectFailed(delivered'))
          => /\ roleInfo'.role = S_guest
             /\ roleInfo'.source = flows[i].ip
             /\ error' = ERR_DETECT
             /\ flows'[i].pc = "done"
             /\ Mounted' ]_vars

C2_Witness ==
    /\ \E i \in 1..Len(flows) : flows[i].pc = "done"
    /\ delivered \in DetectResponses
    /\ DetectFailed(delivered)
    /\ roleInfo.role = S_guest
    /\ roleInfo.source = FALLBACK_IP
    /\ error = ERR_DETECT

\* C3: every detectRoleFlow invocation issues exactly one detect-role
\* request, for a non-empty ip: the manual ip when the override is on with a
\* non-empty manual ip (and then no lookup is made), else the address the
\* lookup returned, else the fallback address; and it never throws.
C3_OneRequestNeverEmptyIp ==
    [][ \A i \in 1..Len(flows') :
          LET started == i > Len(flows)
              issued == flows'[i].pc = "detect" /\ (started \/ flows[i].pc = "lookup")
              manual == useManual /\ manualIp # ""
              address == IF /\ ~delivered'.rejected
                            /\ delivered'.ok
                            /\ "ip" \in DOMAIN delivered'.body
                         THEN delivered'.body.ip
                         ELSE ""
          IN /\ flows'[i].pc \in {"lookup", "detect", "done"}
             /\ flows'[i].sent = (IF flows'[i].pc = "lookup" THEN 0 ELSE 1)
             /\ started => (flows'[i].pc = "detect") = manual
             /\ issued => /\ flows'[i].ip # ""
                          /\ flows'[i].ip = (IF started THEN manualIp
                                             ELSE IF address # "" THEN address
                                             ELSE FALLBACK_IP)
             /\ flows'[i].pc = "lookup" => flows'[i].ip = ""
             /\ (~started /\ flows'[i].pc = "detect" /\ ~issued) => flows'[i].ip = flows[i].ip ]_vars

C3_Witness ==
    /\ Len(flows) = 2
    /\ flows[1].pc = "detect" /\ flows[1].ip = FALLBACK_IP
    /\ flows[2].pc = "detect" /\ flows[2].ip = "192.0.2.44"

\* C4: once the later-issued of two overlapping detections has completed,
\* roleInfo is what it wrote: the earlier one's response, arriving after,
\* does not change it.
C4_LastCallWins ==
    [][ (flows[Len(flows)].pc = "done" /\ Len(flows') = Len(flows))
        => roleInfo' = roleInfo ]_vars

\* C5 as claimed: a completed detection leaves nothing of an earlier
\* response in roleInfo; a failed one, which has no response of its own,
\* leaves no id and no description.
C5_FullyReplaced ==
    [][ \A i \in 1..Len(flows) :
          (DetectReturns(i) /\ DetectFailed(delivered'))
          => /\ roleInfo'.id = NULL
             /\ roleInfo'.description \in {NULL, ""} ]_vars

\* C5 as amended: a successful detection replaces all four fields by what
\* its own response and ip give; a failed one replaces role and source only
\* and leaves id and description as they were.
C5_ReplacedButIdAndDescriptionOnFailure ==
    [][ \A i \in 1..Len(flows) :
          DetectReturns(i)
          => IF DetectFailed(delivered')
             THEN /\ roleInfo'.role = S_guest
                  /\ roleInfo'.source = flows[i].ip
                  /\ roleInfo'.id = roleInfo.id
                  /\ roleInfo'.description = roleInfo.description
             ELSE /\ roleInfo'.role \in {delivered'.body[f] : f \in {"role"} \cap DOMAIN delivered'.body}
                                        \cup {S_user}
                  /\ roleInfo'.source \in {delivered'.body[f] : f \in {"source"} \cap DOMAIN delivered'.body}
                                          \cup {flows[i].ip}
                  /\ roleInfo'.id \in {delivered'.body[f] : f \in {"id"} \cap DOMAIN delivered'.body}
                                      \cup {NULL}
                  /\ roleInfo'.description
                        \in {delivered'.body[f] : f \in {"description"} \cap DOMAIN delivered'.body}
                            \cup {""} ]_vars

C5_Witness ==
    /\ \E i \in 1..Len(flows) : flows[i].pc = "done"
    /\ delivered \in DetectResponses
    /\ DetectFailed(delivered)
    /\ roleInfo.role = S_guest
    /\ roleInfo.id = "A-1"
    /\ roleInfo.description = "ops"

\* a submitReport invocation is resumed from its request in this step
ReportReturns(i) == reports[i] = "fetch" /\ reports'[i] = "done"

\* C6: when the report request fails, the status becomes the error status
\* and the modal and the payload are left as they are; submitReport closes
\* the modal and resets the payload only on a successful response, never
\* when it issues the request.
C6_FailedReportKeepsModalAndPayload ==
    [][ /\ \A i \in 1..Len(reports) :
             ReportReturns(i)
             => IF delivered'.rejected \/ ~delivered'.ok
                THEN /\ reportStatus' = STATUS_ERROR
                     /\ showReport' = showReport
                     /\ reportPayload' = reportPayload
                ELSE /\ reportStatus' = STATUS_SUCCESS
                     /\ showReport' = FALSE
                     /\ reportPayload' = EMPTY_PAYLOAD
        /\ Len(reports') > Len(reports)
             => /\ showReport' = showReport
                /\ reportPayload' = reportPayload ]_vars

C6_Witness ==
    /\ \E i \in 1..Len(reports) : reports[i] = "done"
    /\ delivered \in ReportResponses
    /\ ~delivered.ok
    /\ reportStatus = STATUS_ERROR
    /\ showReport
    /\ reportPayload = [binId |-> "", note |-> "full"]

\* C7: on a successful detect-role response for ip x, roleInfo becomes the
\* response's role (as spelled), source, id and description, with "user",
\* x, null and "" for the ones the response lacks.
C7_SuccessAdoptsResponseWithDefaults ==
    [][ \A i \in 1..Len(flows) :
          (DetectReturns(i) /\ ~DetectFailed(delivered'))
          => LET data == delivered'.body
             IN /\ roleInfo'.role = (IF "role" \in DOMAIN data THEN data.role ELSE S_user)
                /\ roleInfo'.source = (IF "source" \in DOMAIN data THEN data.source ELSE flows[i].ip)
                /\ roleInfo'.id = (IF "id" \in DOMAIN data THEN data.id ELSE NULL)
                /\ roleInfo'.description =
                     (IF "description" \in DOMAIN data THEN data.description ELSE "")
                /\ DOMAIN roleInfo' = {"role", "source", "id", "description"} ]_vars

C7_Witness ==
    /\ \E i \in 1..Len(flows) : flows[i].pc = "done"
    /\ delivered \in DetectResponses
    /\ ~DetectFailed(delivered)
    /\ delivered.body = [role |-> S_TRUCK]
    /\ roleInfo = [role |-> S_TRUCK, source |-> LookupIp, id |-> NULL, description |-> ""]

\* C8: the banner of a failed detection is never cleared by a timer, the
\* 2.5 s timer of an earlier access-denied notice included.
C8_DetectionBannerOutlivesTimers ==
    [][ (error = ERR_DETECT /\ errorTimers' < errorTimers) => error' = ERR_DETECT ]_vars

\* C9: the success or failure status of a report attempt is cleared by that
\* attempt's own 3 s timer, not before, also when an earlier attempt's timer
\* is still pending.
C9_StatusClearedByOwnTimer ==
    [][ (reportStatus.type \in {"success", "error"} /\ reportStatus' = NO_STATUS)
        => (statusTimers # << >> /\ Head(statusTimers) = statusOwner) ]_vars

\* C10: selectedBin is never null: it is the default bin BIN-A while the
\* user has chosen none, and the bin of the user's last selection after;
\* nothing but a selection changes it.
C10_SelectedBinIsLastChosen ==
    /\ DOMAIN selectedBin = {"id", "title", "status", "dist", "lat", "lng"}
    /\ lastChosen = 0 => (selectedBin = InitialBin /\ selectedBin.id = "BIN-A")
    /\ lastChosen # 0 => \A f \in DOMAIN selectedBin : selectedBin[f] = demoBins[lastChosen][f]

C10_Witness ==
    /\ lastChosen = 3
    /\ selectedBin.id = "BIN-C"
    /\ \E i \in 1..Len(reports) : reports[i] = "done"
    /\ \E i \in 1..Len(flows) : flows[i].pc = "done"

\* C11: for all valid coordinate pairs a and b, haversineDistance(a, b) is
\* never NaN and is non-negative, equals haversineDistance(b, a), and is zero
\* exactly when a and b are the same point.
C11_DistanceIsNonNegativeSymmetricZeroIffSame ==
    distance.called
    => /\ ~isNaN(distance.ab)
       /\ distance.ab.m = 0 \/ distance.ab.s = 1
       /\ distance.ab = distance.ba
       /\ distance.ab.m = 0 <=> pointA = pointB

\* C12: whenever loading is false, no detectRoleFlow invocation has its IP
\* lookup or its detect-role request in flight, overlapping invocations
\* included.
C12_NotLoadingMeansNothingInFlight ==
    loading = FALSE => \A i \in 1..Len(flows) : flows[i].pc = "done"

====
